---- MODULE Spec2Model ----
(***************************************************************************)
(* mass-merge: bulk approval and squash-merge of pull requests.            *)
(*                                                                         *)
(* The model follows the latest variant of the command line tool           *)
(* (src/unnamed/part_000).  One run of run() is a single sequential async  *)
(* function: a step of the model is the code executed between the          *)
(* resumption of one awaited network call (or prompt) and the next one.    *)
(* Fixed delays (sleep) suspend the run without changing its state and are *)
(* folded into the step that follows them.  The host (GitHub) is the       *)
(* environment: it answers or fails every request and pull requests may be *)
(* edited on it at any time.                                               *)
(*                                                                         *)
(* JavaScript strings are sequences of one-character strings, so that      *)
(* toLowerCase() and includes() are computed, not assumed.                 *)
(***************************************************************************)
EXTENDS Integers, Sequences, FiniteSets, TLC

VARIABLES
    author,        \* run(): parameter `author` (reassigned at line 177)
    ignoreChecks,  \* run(): option ignoreChecks
    host,          \* the pull requests as they are on the host right now
    edits,         \* number of edits made on the host so far
    pc,            \* the await the run is suspended at
    inflight,      \* network requests issued and not yet answered
    page,          \* listAll(): let page
    prs,           \* listAll(): const prs = new Map(), in insertion order; then run(): prs
    seen,          \* history: identities delivered by the search so far
    drift,         \* history of the listAll in progress: an identity came twice
    totalCount,    \* listAll(): response.data.total_count of the latest response
    idx,           \* run(): position of `pr` in `for (const pr of prs)`
    status,        \* run(): const status of the last iteration, while in the loop
    succ,          \* history: candidates whose status was "success"
    toMerge,       \* run(): const toMerge = []
    triesLeft,     \* retry(): triesLeft of the retry in progress
    confirm,       \* run(): const { confirm } of the prompt
    k,             \* run(): position of `pr` in `for (const pr of toMerge)`
    processed,     \* run(): let processed
    skipped,       \* history: candidates the safety checks skipped
    acted,         \* history: the candidates acted on, with the outcome of the merge
    log,           \* history: requests and answers for the candidate being acted on
    settled,       \* how the promise of run() settled, or the process exited
    exitCode,      \* process exit status (-1 while running)
    output,        \* what the top level printed: the Done summary or the error
    fn             \* state of a function exercised on its own (FnSpec*)

runVars == <<author, ignoreChecks, host, edits, pc, inflight, page, prs, seen,
             drift, totalCount, idx, status, succ, toMerge, triesLeft, confirm,
             k, processed, skipped, acted, log, settled, exitCode, output>>
vars == <<runVars, fn>>

----------------------------------------------------------------------------
(* Bounds of the model *)

NumPRs == 2        \* pull requests on the host
MaxEdits == 1      \* edits of pull requests on the host during one run
MaxItems == 2      \* items in one search response
MaxTotal == 3      \* largest total_count the host reports
MaxHostRuns == 1   \* check runs in one check-runs response during a run
MaxRuns == 2       \* length of the check-run lists getCheckStatus is exercised on
MaxPlan == 4       \* invocations of func that retry() is offered when exercised
MaxOwners == 2     \* organizations in process.argv[2]
MaxRepos == 2      \* repositories in process.argv[5]

(* Program constants *)
MaxPage == 10          \* while (page < 10)
DefaultTries == 3      \* retry(func, triesLeft = 3)

----------------------------------------------------------------------------
(* Strings *)

Dependabot == <<"d","e","p","e","n","d","a","b","o","t">>
AppDependabot == <<"a","p","p","/">> \o Dependabot
DependabotBot == Dependabot \o <<"[","b","o","t","]">>
Bob == <<"B","o","b">>
BobLogin == <<"b","o","b">>

\* String.prototype.toLowerCase on one character
LowerChar(c) ==
    CASE c = "A" -> "a" [] c = "B" -> "b" [] c = "E" -> "e" [] c = "M" -> "m"
      [] c = "N" -> "n" [] c = "O" -> "o" [] c = "U" -> "u" [] c = "V" -> "v"
      [] c = "Y" -> "y" [] c = "X" -> "x"
      [] OTHER -> c

ToLowerCase(s) == [j \in 1..Len(s) |-> LowerChar(s[j])]

\* String.prototype.includes
Includes(s, sub) ==
    \E j \in 0..(Len(s) - Len(sub)) : SubSeq(s, j + 1, j + Len(sub)) = sub

----------------------------------------------------------------------------
(* Configuration and host *)

PRIds == 1..NumPRs

Authors == {Dependabot, Bob}
title == <<"B","u">>                   \* process.argv[3]

\* the login the host records for the configured author
HostLogin(a) == IF a = Dependabot THEN DependabotBot ELSE BobLogin
TitleMatching == <<"a","b","U","m","p">>
TitleOther == <<"u","b">>

Logins == {DependabotBot, BobLogin}
Titles == {TitleMatching, TitleOther}

\* a search result item (pr.id, pr.user.login, pr.title); pr.url and pr.number
\* identify the same pull request as pr.id
Snapshot(id) == [id |-> id, login |-> host[id].login, title |-> host[id].title]

----------------------------------------------------------------------------
(* constructQuery, lines 112-134, and the strings it works on *)

\* String.prototype.split on a one-character separator
RECURSIVE Split(_, _)
Split(s, sep) ==
    IF \A j \in 1..Len(s) : s[j] # sep THEN <<s>>
    ELSE LET j == CHOOSE m \in 1..Len(s) :
                      s[m] = sep /\ \A n \in 1..(m - 1) : s[n] # sep
         IN  <<SubSeq(s, 1, j - 1)>> \o Split(SubSeq(s, j + 1, Len(s)), sep)

\* Array.prototype.join
RECURSIVE Join(_, _)
Join(parts, sep) ==
    IF parts = <<>> THEN <<>>
    ELSE IF Len(parts) = 1 THEN parts[1]
    ELSE parts[1] \o sep \o Join(Tail(parts), sep)

Space == <<" ">>
Quote == <<"\"">>
TermOpen == <<"i","s",":","o","p","e","n">>
TermPr == <<"i","s",":","p","r">>
TermArchived == <<"a","r","c","h","i","v","e","d",":","f","a","l","s","e">>
TermDraft == <<"d","r","a","f","t",":","f","a","l","s","e">>
TermComments == <<"c","o","m","m","e","n","t","s",":","0">>
TermInTitle == <<"i","n",":","t","i","t","l","e">>
PrefixAuthor == <<"a","u","t","h","o","r",":">>
PrefixOrg == <<"o","r","g",":">>
PrefixRepo == <<"r","e","p","o",":">>
Or == <<" ","O","R"," ">>

\* faulty variant: the organizations are added whether or not repositories
\* are listed
constructQueryBoth(owners, t, a, restrictToRepos) ==
    LET parts == <<TermOpen, TermPr, TermArchived, TermDraft, TermComments,
                   PrefixAuthor \o a, TermInTitle, Quote \o t \o Quote>>
        orgs == [j \in 1..Len(owners) |-> PrefixOrg \o owners[j]]
        repos == [j \in 1..Len(restrictToRepos) |-> PrefixRepo \o restrictToRepos[j]]
    IN  Join(parts \o <<<<"(">> \o Join(orgs, Or) \o <<")">>>> \o repos, Space)

constructQuery(owners, t, a, restrictToRepos) ==
    LET parts == <<TermOpen, TermPr, TermArchived, TermDraft, TermComments,
                   PrefixAuthor \o a, TermInTitle, Quote \o t \o Quote>>
        orgs == [j \in 1..Len(owners) |-> PrefixOrg \o owners[j]]
        repos == [j \in 1..Len(restrictToRepos) |-> PrefixRepo \o restrictToRepos[j]]
    IN  IF Len(restrictToRepos) = 0
        THEN Join(Append(parts, <<"(">> \o Join(orgs, Or) \o <<")">>), Space)
        ELSE Join(parts \o repos, Space)

\* run, lines 176-178
ResolveAuthor(a) == IF a = Dependabot THEN AppDependabot ELSE a

----------------------------------------------------------------------------
(* getCheckStatus: the reduction of a check-run list *)

RunStatuses == {"queued", "in_progress", "completed"}
Conclusions == {"null", "success", "neutral", "skipped", "failure"}
CheckRuns == [status : RunStatuses, conclusion : Conclusions]

\* the check runs a host reports: a run has a conclusion once it is completed
HostCheckRuns ==
    {r \in CheckRuns : (r.status = "completed") <=> (r.conclusion # "null")}

SeqsUpTo(S, n) == UNION {[1..m -> S] : m \in 0..n}

\* faulty variant: the in_progress rule is tried before the queued rule
getCheckStatusInProgressFirst(runs) ==
    IF Len(runs) < 1 THEN "missing"
    ELSE IF \A j \in 1..Len(runs) :
                runs[j].conclusion \in {"success", "neutral", "skipped"}
         THEN "success"
    ELSE IF \E j \in 1..Len(runs) : runs[j].status = "in_progress" THEN "in_progress"
    ELSE IF \E j \in 1..Len(runs) : runs[j].status = "queued" THEN "queued"
    ELSE "failed"

getCheckStatus(runs) ==
    IF Len(runs) < 1 THEN "missing"
    ELSE IF \A j \in 1..Len(runs) :
                runs[j].conclusion \in {"success", "neutral", "skipped"}
         THEN "success"
    ELSE IF \E j \in 1..Len(runs) : runs[j].status = "queued" THEN "queued"
    ELSE IF \E j \in 1..Len(runs) : runs[j].status = "in_progress" THEN "in_progress"
    ELSE "failed"

----------------------------------------------------------------------------
(* retry: what the catch block decides, given triesLeft on entry *)

\* faulty variant: triesLeft is tested before it is decremented
retryCatchOffByOne(tl) ==
    IF tl > 0
    THEN [triesLeft |-> tl - 1, again |-> TRUE]
    ELSE [triesLeft |-> tl - 1, again |-> FALSE]

retryCatch(tl) ==
    IF tl - 1 > 0
    THEN [triesLeft |-> tl - 1, again |-> TRUE]     \* sleep(2000); retry(func, triesLeft)
    ELSE [triesLeft |-> tl - 1, again |-> FALSE]    \* throw error

----------------------------------------------------------------------------
(* listAll: prs.set(pr.id, pr) on a Map kept in insertion order *)

\* faulty variant: an array push instead of a Map keyed by pr.id
MapSetPush(m, pr) == Append(m, pr)

MapSet(m, pr) ==
    IF \E j \in 1..Len(m) : m[j].id = pr.id
    THEN [j \in 1..Len(m) |-> IF m[j].id = pr.id THEN pr ELSE m[j]]
    ELSE Append(m, pr)

RECURSIVE MapSetAll(_, _)
MapSetAll(m, items) ==
    IF items = <<>> THEN m
    ELSE MapSetAll(MapSet(m, Head(items)), Tail(items))

----------------------------------------------------------------------------
(* run: the safety checks of the apply loop *)

requiredUserLogin == IF author = AppDependabot THEN DependabotBot ELSE author

AuthorCheck(pr) == ToLowerCase(pr.login) = ToLowerCase(requiredUserLogin)

TitleCheck(pr) == Includes(ToLowerCase(pr.title), ToLowerCase(title))

SafetyChecks(pr) == AuthorCheck(pr) /\ TitleCheck(pr)

\* faulty variant: the safety checks never take `continue`
NextActedNoChecks(from) == from

\* faulty variant: a mismatch ends the loop (`break` instead of `continue`)
NextActedBreak(from) ==
    IF from > Len(toMerge) THEN from
    ELSE IF SafetyChecks(toMerge[from]) THEN from
    ELSE Len(toMerge) + 1

\* position of the first candidate at or after `from` that passes the safety
\* checks (every candidate before it takes `continue`), or Len(toMerge) + 1
RECURSIVE NextActed(_)
NextActed(from) ==
    IF from > Len(toMerge) THEN from
    ELSE IF SafetyChecks(toMerge[from]) THEN from
    ELSE NextActed(from + 1)

----------------------------------------------------------------------------
(* The top level: run(...).then(...).catch(...) and process.exit *)

Settle(how, code, out) ==
    /\ pc' = "end"
    /\ inflight' = {}
    /\ settled' = how
    /\ exitCode' = code
    /\ output' = out

\* return { processed, total: prs.length }; .then prints the Done summary
Resolve(p, total) == Settle("resolved", 0, <<"Done", p, total>>)

\* the error of request `op` leaves run(); .catch prints it with console.error
Reject(op) == Settle("rejected", 0, <<"error", op>>)

\* process.exit(1)
Exit1 == Settle("exited", 1, <<>>)

Request(op, arg) == [op |-> op, arg |-> arg]

Event(ev, id) == [ev |-> ev, id |-> id]

----------------------------------------------------------------------------
(* Initial state *)

Unasked == <<"unasked">>
Answers == {<<"y">>, <<"Y">>, <<"n">>, <<"N">>, <<>>, <<"x">>}

Init ==
    /\ author \in Authors
    /\ ignoreChecks \in BOOLEAN
    /\ host = [id \in PRIds |-> [login |-> HostLogin(author), title |-> TitleMatching]]
    /\ edits = 0
    /\ pc = "start"
    /\ inflight = {}
    /\ page = 0
    /\ prs = <<>>
    /\ seen = {}
    /\ drift = FALSE
    /\ totalCount = 0
    /\ idx = 0
    /\ status = "none"
    /\ succ = {}
    /\ toMerge = <<>>
    /\ triesLeft = 0
    /\ confirm = Unasked
    /\ k = 0
    /\ processed = 0
    /\ skipped = {}
    /\ acted = <<>>
    /\ log = <<>>
    /\ settled = "pending"
    /\ exitCode = -1
    /\ output = <<>>
    /\ fn = [name |-> "none"]

----------------------------------------------------------------------------
(* The host: a pull request is edited (its title or its author login) *)

HostEdit ==
    /\ pc \notin {"end", "idle"}
    /\ edits < MaxEdits
    /\ \E id \in PRIds :
         \/ \E l \in Logins \ {host[id].login} :
               host' = [host EXCEPT ![id].login = l]
         \/ \E t \in Titles \ {host[id].title} :
               host' = [host EXCEPT ![id].title = t]
    /\ edits' = edits + 1
    /\ UNCHANGED <<author, ignoreChecks, pc, inflight, page, prs, seen, drift,
                   totalCount, idx, status, succ, toMerge, triesLeft, confirm,
                   k, processed, skipped, acted, log, settled, exitCode,
                   output, fn>>

----------------------------------------------------------------------------
(* run, lines 176-180, and listAll *)

\* run() up to the first search request
RunStart ==
    /\ pc = "start"
    /\ author' = ResolveAuthor(author)
    /\ page' = 1
    /\ prs' = <<>>
    /\ pc' = "search"
    /\ inflight' = {Request("search", 1)}
    /\ UNCHANGED <<ignoreChecks, host, edits, seen, drift, totalCount, idx,
                   status, succ, toMerge, triesLeft, confirm, k, processed,
                   skipped, acted, log, settled, exitCode, output, fn>>

\* faulty variant: with ignoreChecks the status loop is not run
StatusLoopStartIgnoring(found) ==
    /\ prs' = found
    /\ page' = 0
    /\ status' = "none"
    /\ succ' = {}
    /\ IF found = <<>>
       THEN /\ idx' = 0
            /\ toMerge' = <<>>
            /\ triesLeft' = triesLeft
            /\ Resolve(0, 0)
       ELSE IF ignoreChecks
       THEN /\ idx' = Len(found) + 1
            /\ toMerge' = found
            /\ triesLeft' = triesLeft
            /\ pc' = "prompt"
            /\ inflight' = {}
            /\ UNCHANGED <<settled, exitCode, output>>
       ELSE /\ idx' = 1
            /\ toMerge' = <<>>
            /\ triesLeft' = DefaultTries
            /\ pc' = "detail"
            /\ inflight' = {Request("detail", found[1].id)}
            /\ UNCHANGED <<settled, exitCode, output>>

\* run() from the return of listAll to the first status request, or to its
\* end when nothing was found
StatusLoopStart(found) ==
    /\ prs' = found
    /\ page' = 0
    /\ toMerge' = <<>>
    /\ status' = "none"
    /\ succ' = {}
    /\ IF found = <<>>
       THEN /\ idx' = 0
            /\ triesLeft' = triesLeft
            /\ Resolve(0, 0)
       ELSE /\ idx' = 1
            /\ triesLeft' = DefaultTries
            /\ pc' = "detail"
            /\ inflight' = {Request("detail", found[1].id)}
            /\ UNCHANGED <<settled, exitCode, output>>

\* faulty variant: the loop goes on when the size equals total_count
AccumulateStrict(items, total) ==
    LET found == MapSetAll(prs, [j \in 1..Len(items) |-> Snapshot(items[j])])
    IN  [found |-> found,
         ids |-> {items[j] : j \in 1..Len(items)},
         total |-> IF Len(found) > total THEN 0 ELSE total,
         twice |-> \E j \in 1..Len(items) :
                      \/ items[j] \in seen
                      \/ \E m \in 1..(j - 1) : items[m] = items[j],
         break |-> Len(found) > total]

\* listAll, lines 153-161, on one response: the Map after the items are set,
\* whether the loop breaks, and total_count as long as the response is in
\* scope (0 once the loop is left by break)
Accumulate(items, total) ==
    LET found == MapSetAll(prs, [j \in 1..Len(items) |-> Snapshot(items[j])])
    IN  [found |-> found,
         ids |-> {items[j] : j \in 1..Len(items)},
         total |-> IF Len(found) >= total THEN 0 ELSE total,
         twice |-> \E j \in 1..Len(items) :
                      \/ items[j] \in seen
                      \/ \E m \in 1..(j - 1) : items[m] = items[j],
         break |-> Len(found) >= total]

\* GET /search/issues answers with items and total_count
SearchResponse ==
    /\ pc = "search"
    /\ \E r \in {Accumulate(items, total) :
                    items \in SeqsUpTo(PRIds, MaxItems), total \in 0..MaxTotal} :
         /\ seen' = seen \cup r.ids
         /\ IF r.break \/ ~(page + 1 < MaxPage)
            THEN /\ drift' = FALSE
                 /\ totalCount' = 0
                 /\ StatusLoopStart(r.found)
            ELSE /\ drift' = (drift \/ r.twice)
                 /\ totalCount' = r.total
                 /\ prs' = r.found
                 /\ page' = page + 1
                 /\ pc' = "search"
                 /\ inflight' = {Request("search", page + 1)}
                 /\ UNCHANGED <<idx, status, succ, toMerge, triesLeft, settled,
                                exitCode, output>>
    /\ UNCHANGED <<author, ignoreChecks, host, edits, confirm, k, processed,
                   skipped, acted, log, fn>>

\* GET /search/issues fails: listAll has no retry, the error leaves run()
SearchError ==
    /\ pc = "search"
    /\ Reject("search")
    /\ UNCHANGED <<author, ignoreChecks, host, edits, page, prs, seen, drift,
                   totalCount, idx, status, succ, toMerge, triesLeft, confirm,
                   k, processed, skipped, acted, log, fn>>

----------------------------------------------------------------------------
(* run, lines 188-210: retry(() => getCheckStatus(pr)) for every candidate *)

\* GET /repos/.../pulls/{id} answers; getCheckStatus requests the check runs
DetailResponse ==
    /\ pc = "detail"
    /\ pc' = "checks"
    /\ inflight' = {Request("checks", prs[idx].id)}
    /\ UNCHANGED <<author, ignoreChecks, host, edits, page, prs, seen, drift,
                   totalCount, idx, status, succ, toMerge, triesLeft, confirm,
                   k, processed, skipped, acted, log, settled, exitCode,
                   output, fn>>

\* getCheckStatus threw: the catch block of retry
StatusRetry ==
    LET r == retryCatch(triesLeft)
    IN  /\ triesLeft' = r.triesLeft
        /\ IF r.again
           THEN /\ pc' = "detail"
                /\ inflight' = {Request("detail", prs[idx].id)}
                /\ UNCHANGED <<settled, exitCode, output>>
           ELSE Reject(pc)
        /\ UNCHANGED <<author, ignoreChecks, host, edits, page, prs, seen,
                       drift, totalCount, idx, status, succ, toMerge, confirm,
                       k, processed, skipped, acted, log, fn>>

\* GET /repos/.../pulls/{id} fails
DetailError ==
    /\ pc = "detail"
    /\ StatusRetry

\* GET /repos/.../commits/{sha}/check-runs fails
ChecksError ==
    /\ pc = "checks"
    /\ StatusRetry

\* faulty variant: only a failed status keeps a candidate out of the ready set
ClassifyNotFailed(tm, pr, st) ==
    IF st # "failed" \/ ignoreChecks THEN Append(tm, pr) ELSE tm

\* faulty variant: the override pushes a success candidate a second time
ClassifyTwice(tm, pr, st) ==
    LET pushed == IF st = "success" THEN Append(tm, pr) ELSE tm
    IN  IF ignoreChecks THEN Append(pushed, pr) ELSE pushed

\* lines 194-207: the ready set after a candidate of status `st`
Classify(tm, pr, st) ==
    LET pushed == IF st = "success" THEN Append(tm, pr) ELSE tm
    IN  IF ignoreChecks /\ st # "success" THEN Append(pushed, pr) ELSE pushed

\* faulty variant: approve is not awaited, the merge request leaves with it
ApplyLoopNoAwait(from, p, done) ==
    LET j == NextActed(from)
    IN  /\ k' = j
        /\ processed' = p
        /\ acted' = done
        /\ skipped' = skipped \cup {toMerge[m].id : m \in from..(j - 1)}
        /\ IF j <= Len(toMerge)
           THEN /\ pc' = "merge"
                /\ triesLeft' = DefaultTries
                /\ inflight' = {Request("approve", toMerge[j].id),
                                Request("merge", toMerge[j].id)}
                /\ log' = <<Event("approve", toMerge[j].id),
                            Event("merge", toMerge[j].id)>>
                /\ UNCHANGED <<settled, exitCode, output>>
           ELSE /\ triesLeft' = triesLeft
                /\ log' = <<>>
                /\ Resolve(p, Len(prs))

\* faulty variant: processed is incremented for a skipped candidate as well
ApplyLoopCountSkipped(from, p, done) ==
    LET j == NextActed(from)
    IN  /\ k' = j
        /\ processed' = p + (j - from)
        /\ acted' = done
        /\ skipped' = skipped \cup {toMerge[m].id : m \in from..(j - 1)}
        /\ IF j <= Len(toMerge)
           THEN /\ pc' = "approve"
                /\ triesLeft' = DefaultTries
                /\ inflight' = {Request("approve", toMerge[j].id)}
                /\ log' = <<Event("approve", toMerge[j].id)>>
                /\ UNCHANGED <<settled, exitCode, output>>
           ELSE /\ triesLeft' = triesLeft
                /\ log' = <<>>
                /\ Resolve(p + (j - from), Len(prs))

\* lines 237-264: the for loop over toMerge continues at position `from` with
\* `p` candidates processed (`done`: those acted on so far), up to the next
\* approve request or to the return
ApplyLoop(from, p, done) ==
    LET j == NextActed(from)
    IN  /\ k' = j
        /\ processed' = p
        /\ acted' = done
        /\ skipped' = skipped \cup {toMerge[m].id : m \in from..(j - 1)}
        /\ IF j <= Len(toMerge)
           THEN /\ pc' = "approve"
                /\ triesLeft' = DefaultTries
                /\ inflight' = {Request("approve", toMerge[j].id)}
                /\ log' = <<Event("approve", toMerge[j].id)>>
                /\ UNCHANGED <<settled, exitCode, output>>
           ELSE /\ triesLeft' = triesLeft
                /\ log' = <<>>
                /\ Resolve(p, Len(prs))

\* GET /repos/.../commits/{sha}/check-runs answers with the check runs
ChecksResponse ==
    /\ pc = "checks"
    /\ \E st \in {getCheckStatus(runs) : runs \in SeqsUpTo(HostCheckRuns, MaxHostRuns)} :
         LET ready == Classify(toMerge, prs[idx], st)
         IN  /\ status' = IF idx < Len(prs) THEN st ELSE "none"
             /\ succ' = IF st = "success" THEN succ \cup {prs[idx].id} ELSE succ
             /\ toMerge' = ready
             /\ idx' = idx + 1
             /\ IF idx < Len(prs)
                THEN /\ triesLeft' = DefaultTries
                     /\ pc' = "detail"
                     /\ inflight' = {Request("detail", prs[idx + 1].id)}
                     /\ UNCHANGED <<settled, exitCode, output>>
                ELSE /\ triesLeft' = triesLeft
                     /\ IF Len(ready) > 0
                        THEN /\ pc' = "prompt"
                             /\ inflight' = {}
                             /\ UNCHANGED <<settled, exitCode, output>>
                        ELSE Resolve(0, Len(prs))
    /\ UNCHANGED <<author, ignoreChecks, host, edits, page, prs, seen, drift,
                   totalCount, confirm, k, processed, skipped, acted, log, fn>>

----------------------------------------------------------------------------
(* run, lines 212-235: the confirmation prompt *)

\* faulty variant: only an empty answer is invalid
InvalidAnswerEmptyOnly(a) == a = <<>>

\* lines 223-226: "Please answer Y or N."
InvalidAnswer(a) ==
    a = <<>> \/ (ToLowerCase(a) # <<"n">> /\ ToLowerCase(a) # <<"y">>)

\* faulty variant: a negative answer is not acted on
DeclinedNever(a) == FALSE

\* line 231: "Exiting..."
Declined(a) == ToLowerCase(a) = <<"n">>

PromptAnswer ==
    /\ pc = "prompt"
    /\ \E a \in Answers :
         /\ confirm' = a
         /\ IF InvalidAnswer(a)
            THEN /\ Exit1
                 /\ UNCHANGED <<k, processed, skipped, triesLeft, acted, log>>
            ELSE IF Declined(a)
            THEN /\ Exit1
                 /\ UNCHANGED <<k, processed, skipped, triesLeft, acted, log>>
            ELSE ApplyLoop(1, 0, <<>>)
    /\ UNCHANGED <<author, ignoreChecks, host, edits, page, prs, seen, drift,
                   totalCount, idx, status, succ, toMerge, fn>>

----------------------------------------------------------------------------
(* run, lines 259-263: approve, then merge *)

\* POST .../reviews answers: approve returns, retry returns, merge is requested
ApproveResponse ==
    /\ pc = "approve"
    /\ pc' = "merge"
    /\ triesLeft' = DefaultTries
    /\ inflight' = {Request("merge", toMerge[k].id)}
    /\ log' = log \o <<Event("approved", toMerge[k].id), Event("merge", toMerge[k].id)>>
    /\ acted' = acted
    /\ UNCHANGED <<author, ignoreChecks, host, edits, page, prs, seen, drift,
                   totalCount, idx, status, succ, toMerge, confirm, k,
                   processed, skipped, settled, exitCode, output, fn>>

\* faulty variant: approve catches its error as merge does, and merge follows
ApproveErrorSwallowed ==
    /\ pc = "approve"
    /\ pc' = "merge"
    /\ triesLeft' = DefaultTries
    /\ inflight' = {Request("merge", toMerge[k].id)}
    /\ log' = log \o <<Event("approveFailed", toMerge[k].id),
                        Event("merge", toMerge[k].id)>>
    /\ acted' = acted
    /\ UNCHANGED <<author, ignoreChecks, host, edits, page, prs, seen, drift,
                   totalCount, idx, status, succ, toMerge, confirm, k,
                   processed, skipped, settled, exitCode, output, fn>>

\* POST .../reviews fails: approve throws, the catch block of retry
ApproveError ==
    /\ pc = "approve"
    /\ LET r == retryCatch(triesLeft)
           failed == Append(log, Event("approveFailed", toMerge[k].id))
       IN  /\ triesLeft' = r.triesLeft
           /\ acted' = acted
           /\ IF r.again
              THEN /\ pc' = "approve"
                   /\ inflight' = {Request("approve", toMerge[k].id)}
                   /\ log' = Append(failed, Event("approve", toMerge[k].id))
                   /\ UNCHANGED <<settled, exitCode, output>>
              ELSE /\ log' = failed
                   /\ Reject("approve")
    /\ UNCHANGED <<author, ignoreChecks, host, edits, page, prs, seen, drift,
                   totalCount, idx, status, succ, toMerge, confirm, k,
                   processed, skipped, fn>>

\* PUT .../merge answers: "and merged", then processed++
MergeResponse ==
    /\ pc = "merge"
    /\ ApplyLoop(k + 1, processed + 1, Append(acted, Event("merged", toMerge[k].id)))
    /\ UNCHANGED <<author, ignoreChecks, host, edits, page, prs, seen, drift,
                   totalCount, idx, status, succ, toMerge, confirm, fn>>

\* PUT .../merge fails: merge catches the error and prints NOT MERGED, so retry
\* sees a normal return; then processed++
MergeError ==
    /\ pc = "merge"
    /\ ApplyLoop(k + 1, processed + 1, Append(acted, Event("notMerged", toMerge[k].id)))
    /\ UNCHANGED <<author, ignoreChecks, host, edits, page, prs, seen, drift,
                   totalCount, idx, status, succ, toMerge, confirm, fn>>

----------------------------------------------------------------------------
(* The run *)

Next ==
    \/ HostEdit
    \/ RunStart
    \/ SearchResponse
    \/ SearchError
    \/ DetailResponse
    \/ DetailError
    \/ ChecksResponse
    \/ ChecksError
    \/ PromptAnswer
    \/ ApproveResponse
    \/ ApproveError
    \/ MergeResponse
    \/ MergeError

Spec == Init /\ [][Next]_vars

----------------------------------------------------------------------------
(* Functions exercised on their own: no run is in progress *)

NoRun ==
    /\ author = Dependabot
    /\ ignoreChecks = FALSE
    /\ host = [id \in PRIds |-> [login |-> DependabotBot, title |-> TitleMatching]]
    /\ edits = 0
    /\ pc = "idle"
    /\ inflight = {}
    /\ page = 0
    /\ prs = <<>>
    /\ seen = {}
    /\ drift = FALSE
    /\ totalCount = 0
    /\ idx = 0
    /\ status = "none"
    /\ succ = {}
    /\ toMerge = <<>>
    /\ triesLeft = 0
    /\ confirm = Unasked
    /\ k = 0
    /\ processed = 0
    /\ skipped = {}
    /\ acted = <<>>
    /\ log = <<>>
    /\ settled = "pending"
    /\ exitCode = -1
    /\ output = <<>>

(* getCheckStatus, lines 95-109, on every check-run list of at most MaxRuns runs *)

InitCheckStatus ==
    /\ NoRun
    /\ \E runs \in SeqsUpTo(CheckRuns, MaxRuns) :
         fn = [name |-> "getCheckStatus", at |-> "called", runs |-> runs,
               ret |-> "none"]

CheckStatusReturn ==
    /\ fn.name = "getCheckStatus"
    /\ fn.at = "called"
    /\ fn' = [fn EXCEPT !.at = "returned", !.ret = getCheckStatus(fn.runs)]
    /\ UNCHANGED runVars

SpecCheckStatus == InitCheckStatus /\ [][CheckStatusReturn]_vars

(* retry(func), lines 70-83: func's successive invocations behave as `plan`  *)
(* says ("throw", or the value it returns)                                  *)

FuncOutcomes == {"throw", "v1", "v2"}

InitRetry ==
    /\ NoRun
    /\ \E plan \in [1..MaxPlan -> FuncOutcomes] :
         fn = [name |-> "retry", at |-> "try", plan |-> plan,
               triesLeft |-> DefaultTries, calls |-> 0, sleeps |-> 0,
               sleptLast |-> FALSE, ret |-> "none"]

\* try { return await func(); } and func returns
RetryFuncReturns ==
    /\ fn.name = "retry"
    /\ fn.at = "try"
    /\ fn.calls < MaxPlan
    /\ fn.plan[fn.calls + 1] # "throw"
    /\ fn' = [fn EXCEPT !.at = "returned", !.calls = @ + 1, !.sleptLast = FALSE,
                        !.ret = fn.plan[fn.calls + 1]]
    /\ UNCHANGED runVars

\* func throws: the catch block
RetryFuncThrows ==
    /\ fn.name = "retry"
    /\ fn.at = "try"
    /\ fn.calls < MaxPlan
    /\ fn.plan[fn.calls + 1] = "throw"
    /\ LET r == retryCatch(fn.triesLeft)
       IN  fn' = [fn EXCEPT !.calls = @ + 1,
                            !.triesLeft = r.triesLeft,
                            !.at = IF r.again THEN "try" ELSE "thrown",
                            !.sleeps = IF r.again THEN @ + 1 ELSE @,
                            !.sleptLast = r.again]
    /\ UNCHANGED runVars

NextRetry == RetryFuncReturns \/ RetryFuncThrows

SpecRetry == InitRetry /\ [][NextRetry]_vars


(* constructQuery as listAll calls it for run(orgs, title, author, repos) *)

OrgNames == {<<"a","c">>, <<"d">>}
RepoNames == {<<"a","c","/","r">>, <<"d","/","s">>}

InitQuery ==
    /\ NoRun
    /\ \E names \in SeqsUpTo(OrgNames, MaxOwners) \ {<<>>},
          a \in Authors, repos \in SeqsUpTo(RepoNames, MaxRepos) :
         fn = [name |-> "constructQuery", at |-> "called", names |-> names,
               orgs |-> Join(names, <<",">>), author |-> a,
               restrictToRepos |-> repos, ret |-> <<>>]

\* lines 176-178, 139 and 140
QueryReturn ==
    /\ fn.name = "constructQuery"
    /\ fn.at = "called"
    /\ fn' = [fn EXCEPT !.at = "returned",
                        !.ret = constructQuery(Split(fn.orgs, ","), title,
                                               ResolveAuthor(fn.author),
                                               fn.restrictToRepos)]
    /\ UNCHANGED runVars

SpecQuery == InitQuery /\ [][QueryReturn]_vars

----------------------------------------------------------------------------
(* Properties *)

\* the candidates an approve or merge request was issued for
ActedIds == {acted[j].id : j \in 1..Len(acted)} \cup {log[j].id : j \in 1..Len(log)}
ToMergeIds == {toMerge[m].id : m \in 1..Len(toMerge)}
Count(ev) == Cardinality({j \in 1..Len(log) : log[j].ev = ev})
PosIn(s, id) == CHOOSE m \in 1..Len(s) : s[m].id = id

\* s and t are equal up to the case of their letters
SameIgnoringCase(s, t) ==
    /\ Len(s) = Len(t)
    /\ \A j \in 1..Len(s) : LowerChar(s[j]) = LowerChar(t[j])

\* the login and the title of `pr` are those the run was configured for
ExpectedLogin == IF author \in {Dependabot, AppDependabot} THEN DependabotBot ELSE author
MatchesConfig(pr) ==
    /\ SameIgnoringCase(pr.login, ExpectedLogin)
    /\ \E j \in 0..(Len(pr.title) - Len(title)) :
          SameIgnoringCase(SubSeq(pr.title, j + 1, j + Len(title)), title)

\* C1: as long as the prompt has not been answered y or Y, no approve and no
\* merge request has been issued.
C1_ConfirmationGate ==
    (confirm \notin {<<"y">>, <<"Y">>}) =>
        /\ ActedIds = {}
        /\ \A r \in inflight : r.op \notin {"approve", "merge"}

C1_Witness ==
    /\ confirm = <<"Y">>
    /\ \E j \in 1..Len(acted) : acted[j].ev = "merged"

C3_OnlySuccessIsReady ==
    ~ignoreChecks => (ToMergeIds \subseteq succ /\ ActedIds \subseteq succ)

C3_Witness ==
    /\ ~ignoreChecks
    /\ settled = "resolved"
    /\ \E j \in 1..Len(acted) : acted[j].ev = "merged"
    /\ \E j \in 1..Len(prs) : prs[j].id \notin succ

\* C4: getCheckStatus returns exactly the status of the first matching rule
\* (missing, success, queued, in_progress, failed), which depends on the set of
\* runs only and not on their order; queued wins over in_progress.
C4_CheckStatusPolicy ==
    fn.at = "returned" =>
        LET rs == {fn.runs[j] : j \in 1..Len(fn.runs)}
            allOk == \A r \in rs : r.conclusion \in {"success", "neutral", "skipped"}
            queued == \E r \in rs : r.status = "queued"
            inProgress == \E r \in rs : r.status = "in_progress"
        IN  /\ fn.ret \in {"missing", "success", "queued", "in_progress", "failed"}
            /\ (fn.ret = "missing") <=> (rs = {})
            /\ (fn.ret = "success") <=> (rs # {} /\ allOk)
            /\ (fn.ret = "queued") <=> (rs # {} /\ ~allOk /\ queued)
            /\ (fn.ret = "in_progress") <=> (rs # {} /\ ~allOk /\ ~queued /\ inProgress)
            /\ (fn.ret = "failed") <=> (rs # {} /\ ~allOk /\ ~queued /\ ~inProgress)
            /\ \A p \in Permutations(1..Len(fn.runs)) :
                  getCheckStatus([j \in 1..Len(fn.runs) |-> fn.runs[p[j]]]) = fn.ret

C4_Witness ==
    /\ fn.at = "returned"
    /\ fn.ret = "queued"
    /\ Len(fn.runs) = 2
    /\ fn.runs[1].status = "in_progress"
    /\ fn.runs[2].status = "queued"

\* C5 as stated: processed counts the candidates whose merge succeeded; a
\* candidate whose merge failed is not counted.
C5_FailedMergeNotCounted ==
    processed = Cardinality({j \in 1..Len(acted) : acted[j].ev = "merged"})

\* C6: retry invokes func at most 3 times, returns the value of the first
\* successful invocation, sleeps once between two invocations and not after
\* the last one, and throws when all 3 invocations fail.
C6_BoundedRetry ==
    LET failedUpTo(n) == \A m \in 1..n : fn.plan[m] = "throw"
    IN  /\ fn.calls <= 3
        /\ fn.at = "try" =>
              fn.calls < 3 /\ failedUpTo(fn.calls) /\ fn.sleeps = fn.calls
        /\ fn.at = "returned" =>
              /\ fn.plan[fn.calls] # "throw"
              /\ failedUpTo(fn.calls - 1)
              /\ fn.ret = fn.plan[fn.calls]
              /\ fn.sleeps = fn.calls - 1
              /\ ~fn.sleptLast
        /\ fn.at = "thrown" =>
              /\ fn.calls = 3
              /\ failedUpTo(3)
              /\ fn.ret = "none"
              /\ fn.sleeps = 2
              /\ ~fn.sleptLast

C6_Witness ==
    /\ fn.at = "thrown"
    /\ fn.calls = 3

\* C7: a status evaluation that fails 3 times for a candidate ends the run
\* with the error: nothing was approved or merged, the prompt was not shown,
\* the candidate is not in the ready set and no Done summary is printed.
StatusAborted ==
    /\ settled = "rejected"
    /\ output \in {<<"error", "detail">>, <<"error", "checks">>}

C7_StatusAbortState ==
    /\ pc \in {"detail", "checks"} => triesLeft \in 1..3
    /\ StatusAborted =>
          /\ pc = "end"
          /\ triesLeft = 0
          /\ ActedIds = {}
          /\ inflight = {}
          /\ confirm = Unasked
          /\ prs[idx].id \notin ToMergeIds
          /\ output[1] # "Done"

C7_StatusFailureAborts ==
    /\ []C7_StatusAbortState
    /\ [][(pc \in {"detail", "checks"} /\ triesLeft' = triesLeft - 1) =>
             IF triesLeft = 1
             THEN StatusAborted'
             ELSE pc' = "detail" /\ idx' = idx /\ settled' = "pending"]_vars

C7_Witness ==
    /\ StatusAborted
    /\ toMerge # <<>>

\* C8: an approve request that fails 3 times for a candidate ends the run
\* with the error: no merge request for that candidate, no request for a later
\* candidate, no Done summary.
ApproveAborted ==
    /\ settled = "rejected"
    /\ output = <<"error", "approve">>

C8_ApproveAbortState ==
    /\ pc = "approve" => triesLeft \in 1..3
    /\ ApproveAborted =>
          /\ pc = "end"
          /\ triesLeft = 0
          /\ inflight = {}
          /\ \A j \in 1..Len(log) : log[j].id = toMerge[k].id
          /\ Count("approve") = 3
          /\ Count("approveFailed") = 3
          /\ Count("merge") = 0
          /\ \A m \in k..Len(toMerge) :
                \A j \in 1..Len(acted) : acted[j].id # toMerge[m].id
          /\ output[1] # "Done"

C8_ApproveFailureAborts ==
    /\ []C8_ApproveAbortState
    /\ [][(pc = "approve" /\ Len(log') > Len(log)
             /\ log'[Len(log) + 1].ev = "approveFailed") =>
             IF triesLeft = 1
             THEN ApproveAborted'
             ELSE pc' = "approve" /\ k' = k /\ settled' = "pending"]_vars

C8_Witness ==
    /\ ApproveAborted
    /\ k < Len(toMerge)
    /\ MatchesConfig(toMerge[k + 1])

\* C9: at most one request is in flight; for the candidate being acted on,
\* every request is answered before the next one is issued and the merge
\* request directly follows the successful approve; the loop leaves a
\* candidate only skipped or with its merge request answered; candidates are
\* acted on in the order of their discovery.
C9_SequentialApply ==
    /\ Cardinality(inflight) <= 1
    /\ \A j \in 1..Len(log) :
          /\ log[j].id = toMerge[k].id
          /\ log[j].ev \in (IF j % 2 = 1 THEN {"approve", "merge"}
                                        ELSE {"approved", "approveFailed"})
          /\ log[j].ev = "merge" => (j > 1 /\ log[j - 1].ev = "approved")
          /\ (log[j].ev = "approve" /\ j > 1) => log[j - 1].ev = "approveFailed"
          /\ j = Len(log) =>
                /\ log[j].ev = pc \/ (log[j].ev = "approveFailed" /\ pc = "end")
                /\ pc # "end" => inflight = {Request(log[j].ev, log[j].id)}
    /\ pc \in {"approve", "merge"} => log # <<>>
    /\ \A j \in 1..Len(acted) :
          /\ acted[j].ev \in {"merged", "notMerged"}
          /\ acted[j].id \in ToMergeIds
          /\ PosIn(toMerge, acted[j].id) < k
          /\ \A j2 \in 1..(j - 1) :
                PosIn(toMerge, acted[j2].id) < PosIn(toMerge, acted[j].id)
    /\ \A m \in 1..Len(toMerge) :
          m < k => (toMerge[m].id \in skipped
                        \/ \E j \in 1..Len(acted) : acted[j].id = toMerge[m].id)
    /\ \A m1, m2 \in 1..Len(toMerge) :
          m1 < m2 => PosIn(prs, toMerge[m1].id) < PosIn(prs, toMerge[m2].id)

C9_Witness ==
    /\ pc = "merge"
    /\ Len(acted) = 1
    /\ k = 2
    /\ Count("approveFailed") = 2

\* C10: the candidate list holds every identity the search delivered exactly
\* once: its length is the number of distinct identities delivered.
C10_Deduplicated ==
    /\ Len(prs) = Cardinality(seen)
    /\ {prs[j].id : j \in 1..Len(prs)} = seen
    /\ \A j1, j2 \in 1..Len(prs) : prs[j1].id = prs[j2].id => j1 = j2

C10_Witness ==
    /\ drift
    /\ Len(prs) = 2

\* C11: search requests are for consecutive pages from page 1, one at a time
\* and fewer than 10 of them; another page is requested only while the number
\* of accumulated identities is below the total_count of the latest response.
C11_PaginationTerminates ==
    /\ [](pc = "search" =>
             /\ page \in 1..(MaxPage - 1)
             /\ inflight = {Request("search", page)}
             /\ page > 1 => Len(prs) < totalCount)
    /\ [][(pc' = "search" /\ (pc # "search" \/ page' # page)) =>
             /\ page' = (IF pc = "start" THEN 1 ELSE page + 1)
             /\ pc \in {"start", "search"}
             /\ pc = "search" => Len(prs') < totalCount']_vars

C11_Witness ==
    /\ pc = "search"
    /\ page = MaxPage - 1
    /\ Len(prs) = 1
    /\ drift

\* C12: with the ignore-checks override, the ready set is the list of the
\* candidates whose status has been evaluated, each once and in discovery
\* order: the whole discovered list once the status loop is over; and every
\* candidate approved or merged matches the configured author and title.
C12_IgnoreChecksReadySet ==
    ignoreChecks =>
        /\ toMerge = SubSeq(prs, 1, idx - 1)
        /\ (pc \in {"prompt", "approve", "merge"} \/ settled = "resolved") =>
              toMerge = prs
        /\ \A id \in ActedIds : MatchesConfig(prs[PosIn(prs, id)])

C12_Witness ==
    /\ ignoreChecks
    /\ settled = "resolved"
    /\ Len(toMerge) = 2
    /\ Cardinality(succ) = 1
    /\ Cardinality(skipped) = 1
    /\ processed = 1

\* C13: the prompt is shown only for a non-empty ready set, and an answer
\* other than y or Y ends the process there with exit code 1: no approve or
\* merge request was or will be issued and no candidate is processed.
NonAffirmative == confirm \notin {Unasked, <<"y">>, <<"Y">>}

C13_ExitedState ==
    /\ pc = "prompt" => toMerge # <<>>
    /\ NonAffirmative <=> settled = "exited"
    /\ settled = "exited" =>
          /\ pc = "end"
          /\ exitCode = 1
          /\ toMerge # <<>>
          /\ inflight = {}
          /\ ActedIds = {}
          /\ processed = 0
          /\ output = <<>>

C13_NonAffirmativeExits ==
    /\ []C13_ExitedState
    /\ [][(pc = "prompt" /\ pc' # "prompt") =>
             /\ confirm' \in Answers
             /\ confirm' \notin {<<"y">>, <<"Y">>} => settled' = "exited"]_vars

C13_Witness ==
    /\ settled = "exited"
    /\ confirm = <<"x">>
    /\ Len(toMerge) = 2

\* number of places where `sub` occurs in `s`
Occurrences(s, sub) ==
    Cardinality({j \in 0..(Len(s) - Len(sub)) : SubSeq(s, j + 1, j + Len(sub)) = sub})

\* number of positions of `list` that hold `x`
Times(list, x) == Cardinality({j \in 1..Len(list) : list[j] = x})

\* C14: the query holds each fixed filter term once, with the author term for
\* the resolved author (app/dependabot for dependabot) and the quoted title;
\* with repositories listed it holds one repo: term per listed repository and
\* no org: term; with none listed it ends with one parenthesised group that
\* holds one org: term per organization, joined by OR.
C14_QueryScope ==
    fn.at = "returned" =>
        LET q == fn.ret
            spaced == Space \o q \o Space
            repos == fn.restrictToRepos
            a == IF fn.author = Dependabot THEN AppDependabot ELSE fn.author
            open == CHOOSE j \in 1..Len(q) : q[j] = "("
            group == Or \o SubSeq(q, open + 1, Len(q) - 1) \o Or
        IN  /\ \A term \in {TermOpen, TermPr, TermArchived, TermDraft, TermComments,
                            PrefixAuthor \o a, Quote \o title \o Quote} :
                  Occurrences(spaced, Space \o term \o Space) = 1
            /\ Occurrences(q, PrefixAuthor) = 1
            /\ repos # <<>> =>
                  /\ Occurrences(q, PrefixOrg) = 0
                  /\ Occurrences(q, <<"(">>) = 0
                  /\ Occurrences(q, PrefixRepo) = Len(repos)
                  /\ \A r \in RepoNames :
                        Occurrences(spaced, Space \o PrefixRepo \o r \o Space)
                            = Times(repos, r)
            /\ repos = <<>> =>
                  /\ Occurrences(q, PrefixRepo) = 0
                  /\ Occurrences(q, <<"(">>) = 1
                  /\ Occurrences(q, <<")">>) = 1
                  /\ q[Len(q)] = ")"
                  /\ q[open - 1] = " "
                  /\ Occurrences(q, PrefixOrg) = Len(fn.names)
                  /\ Occurrences(q, Or) = Len(fn.names) - 1
                  /\ \A o \in OrgNames :
                        Occurrences(group, Or \o PrefixOrg \o o \o Or)
                            = Times(fn.names, o)

C14_Witness ==
    /\ fn.at = "returned"
    /\ fn.author = Dependabot
    /\ Len(fn.names) = 2
    /\ fn.names[1] # fn.names[2]
    /\ fn.restrictToRepos = <<>>
    /\ Occurrences(fn.ret, PrefixAuthor \o AppDependabot \o Space) = 1

\* C15 as stated: a candidate is reported as not merged only after its merge
\* request has failed 3 times (the failed request was re-attempted twice).
C15_MergeRetried ==
    [][(Len(acted') > Len(acted) /\ acted'[Len(acted')].ev = "notMerged") =>
          Count("merge") = DefaultTries]_vars

\* C16 as stated: a failed search request aborts the run only when it was the
\* last of the 3 attempts of a retry (the retry in progress has one try left).
C16_SearchRetried ==
    [][(pc = "search" /\ settled' = "rejected") => triesLeft = 1]_vars

\* C17 as stated: in a run that ignores checks no PR-detail and no check-run
\* request is issued, and no failure of the status evaluation aborts the run.
C17_NoStatusEvaluation ==
    ignoreChecks =>
        /\ \A r \in inflight : r.op \notin {"detail", "checks"}
        /\ ~StatusAborted

\* C17 as amended: in a run that ignores checks the status of every candidate
\* is still evaluated, under retry: the PR-detail request, then the check-run
\* request, candidate after candidate; a candidate enters the ready set only
\* when its check-run request is answered, and the prompt is reached only
\* after the last candidate.
C17_EvaluationState ==
    ignoreChecks =>
        /\ pc \in {"detail", "checks"} =>
              /\ idx \in 1..Len(prs)
              /\ triesLeft \in 1..DefaultTries
              /\ inflight = {Request(pc, prs[idx].id)}
        /\ (pc \in {"prompt", "approve", "merge"}
               \/ settled \in {"resolved", "exited"}) =>
              idx = (IF prs = <<>> THEN 0 ELSE Len(prs) + 1)

C17_StatusEvaluatedAnyway ==
    /\ []C17_EvaluationState
    /\ [][ignoreChecks =>
             /\ idx' # idx =>
                   \/ idx' = 1 /\ pc = "search" /\ pc' = "detail"
                   \/ idx' = idx + 1 /\ pc = "checks"
             /\ (pc' = "checks" /\ pc # "checks") => (pc = "detail" /\ idx' = idx)
             /\ toMerge' # toMerge =>
                   (pc = "checks" /\ toMerge' = Append(toMerge, prs[idx]))]_vars

C17_Witness ==
    /\ ignoreChecks
    /\ StatusAborted
    /\ idx = 2
    /\ Len(toMerge) = 1

\* C18: in the apply loop, a ready candidate is skipped exactly when its login
\* or its title does not match the configuration; no approve or merge request
\* is issued for a skipped candidate and it is not counted in processed; the
\* run is not aborted by a skip, and every candidate after a skipped one is
\* still examined: the loop ends after the last candidate with the Done
\* summary, unless an approve request failed 3 times.
C18_MismatchSkips ==
    k >= 1 =>
        /\ skipped = {toMerge[m].id :
                          m \in {n \in 1..(k - 1) : ~MatchesConfig(toMerge[n])}}
        /\ skipped \cap ActedIds = {}
        /\ processed = Len(acted)
        /\ processed + Cardinality(skipped) = k - 1
        /\ k <= Len(toMerge) => MatchesConfig(toMerge[k])
        /\ settled = "resolved" =>
              /\ k = Len(toMerge) + 1
              /\ output = <<"Done", processed, Len(prs)>>
        /\ settled = "rejected" => output = <<"error", "approve">>
        /\ settled # "exited"

C18_Witness ==
    /\ settled = "resolved"
    /\ Len(toMerge) = 2
    /\ toMerge[1].id \in skipped
    /\ acted = <<Event("merged", toMerge[2].id)>>
    /\ processed = 1

\* C19 as stated: a run aborted by an unrecovered failure ends with a non-zero
\* exit status; exit status 0 is reached on normal completion only.
C19_AbortExitsNonZero ==
    /\ settled = "rejected" => exitCode > 0
    /\ exitCode = 0 => settled = "resolved"

\* C20: from the confirmation on, 0 <= processed <= candidates iterated so
\* far <= size of the ready set <= total, the number of distinct discovered
\* candidates, which is the total of the Done summary; processed changes only
\* when the loop leaves a candidate that was not skipped, and then by 1.
C20_CounterState ==
    /\ processed >= 0
    /\ k = 0 => processed = 0
    /\ k >= 1 =>
          /\ processed <= k - 1
          /\ k - 1 <= Len(toMerge)
          /\ Len(toMerge) <= Len(prs)
          /\ Len(prs) = Cardinality(seen)
    /\ settled = "resolved" =>
          /\ output = <<"Done", processed, Cardinality(seen)>>
          /\ processed <= Len(toMerge)

C20_OutcomeCounter ==
    /\ []C20_CounterState
    /\ [][processed' # processed =>
             /\ processed' = processed + 1
             /\ pc = "merge"
             /\ k' > k
             /\ toMerge[k].id \notin skipped'
             /\ Len(acted') = Len(acted) + 1
             /\ acted'[Len(acted')].id = toMerge[k].id]_vars

C20_Witness ==
    /\ ~ignoreChecks
    /\ output = <<"Done", 1, 2>>
    /\ Len(toMerge) = 1
    /\ skipped = {}

====
